---- MODULE Spec2Model ----
(***************************************************************************)
(* Quorum broadcast client of the PBFT key server (PBFTClient) and the     *)
(* KeyServer wrapper that sits on top of it.                               *)
(*                                                                         *)
(* Strings are sequences of one-character strings, so that the template    *)
(* literals of the source (`${status} ${statusText} ${body}`) are real     *)
(* concatenations and two different values can render to the same text.    *)
(***************************************************************************)
EXTENDS Integers, Sequences, FiniteSets, TLC

(***************************************************************************)
(* Bounds of the model.                                                    *)
(***************************************************************************)
\* Largest cluster of the general specifications (sizes 1..MaxNodes).
MaxNodes == 4

\* Cluster sizes of the quorum specification.
QuorumSizes == {1, 4, 7, 10}

\* Largest cluster of the workflow specifications.
MaxFlowNodes == 2

\* The broadcast invocations of one run.
MaxCalls == 3
Calls == 1 .. MaxCalls

\* The lookup and upload invocations of one run, one after the other.
Ops == {1, 2}

(***************************************************************************)
(* Text.                                                                   *)
(***************************************************************************)
EmptyStr == << >>

Digit(d) == CASE d = 0 -> "0" [] d = 1 -> "1" [] d = 2 -> "2" [] d = 3 -> "3"
              [] d = 4 -> "4" [] d = 5 -> "5" [] d = 6 -> "6" [] d = 7 -> "7"
              [] d = 8 -> "8" [] d = 9 -> "9"

\* String(n) of a non-negative integer: its decimal digits.
RECURSIVE NumberToString(_)
NumberToString(n) ==
    IF n < 10 THEN << Digit(n) >>
    ELSE NumberToString(n \div 10) \o << Digit(n % 10) >>

StrOK == << "O", "K" >>
StrNotFound == << "N", "o", "t", " ", "F", "o", "u", "n", "d" >>
StrServerError ==
    << "I", "n", "t", "e", "r", "n", "a", "l", " ", "S", "e", "r", "v", "e",
       "r", " ", "E", "r", "r", "o", "r" >>
StrRequestTimeout ==
    << "R", "e", "q", "u", "e", "s", "t", " ", "T", "i", "m", "e", "o", "u", "t" >>
StrObjectObject ==
    << "[", "o", "b", "j", "e", "c", "t", " ", "O", "b", "j", "e", "c", "t", "]" >>

\* s.startsWith(p)
StartsWith(s, p) == Len(s) >= Len(p) /\ SubSeq(s, 1, Len(p)) = p

(***************************************************************************)
(* Bodies. response.json() yields a JSON value: a string or an object      *)
(* (kind), with its content (json). response.text() yields a string.       *)
(***************************************************************************)
StrBody(s) == [kind |-> "str", json |-> s]
ObjBody(s) == [kind |-> "obj", json |-> s]
NoBody == [kind |-> "none", json |-> EmptyStr]

\* `${body}`: a string renders as itself, an object as "[object Object]".
BodyToString(body) ==
    IF body.kind = "obj" THEN StrObjectObject ELSE body.json

\* `${status} ${statusText} ${body}`
RenderKeyNoBody(status, statusText, body) ==
    NumberToString(status) \o << " " >> \o statusText \o << " " >>

RenderKey(status, statusText, body) ==
    NumberToString(status) \o << " " >> \o statusText \o << " " >>
        \o BodyToString(body)

(***************************************************************************)
(* What the race of one node's fetch against its timer settles with.       *)
(***************************************************************************)
Response(ok, status, statusText, body) ==
    [ok |-> ok, status |-> status, statusText |-> statusText,
     hasText |-> TRUE, body |-> body]

\* reject({status: 520, statusText: "Request Timeout"}): no ok, no text().
TimeoutStatus == 520
RequestTimeout ==
    [ok |-> FALSE, status |-> TimeoutStatus, statusText |-> StrRequestTimeout,
     hasText |-> FALSE, body |-> NoBody]

SuccessX == Response(TRUE, 200, StrOK, StrBody(<< "X" >>))
SuccessY == Response(TRUE, 200, StrOK, StrBody(<< "Y" >>))
SuccessZ == Response(TRUE, 200, StrOK, StrBody(<< "Z" >>))
SuccessObjA == Response(TRUE, 200, StrOK, ObjBody(<< "a", "1" >>))
SuccessObjB == Response(TRUE, 200, StrOK, ObjBody(<< "a", "2" >>))
NotFound == Response(FALSE, 404, StrNotFound, StrBody(EmptyStr))
ServerError == Response(FALSE, 500, StrServerError, StrBody(<< "d", "o", "w", "n" >>))

\* The outcomes a node can produce, in a fixed order; a plan names them by
\* their position.
Outcomes ==
    << SuccessX, SuccessY, SuccessZ, SuccessObjA, SuccessObjB, NotFound,
       RequestTimeout, ServerError >>

IndexOf(response) == CHOOSE i \in DOMAIN Outcomes : Outcomes[i] = response
IdxX == IndexOf(SuccessX)
IdxY == IndexOf(SuccessY)
IdxZ == IndexOf(SuccessZ)
IdxObjA == IndexOf(SuccessObjA)
IdxObjB == IndexOf(SuccessObjB)
IdxNotFound == IndexOf(NotFound)
IdxTimeout == IndexOf(RequestTimeout)
IdxServerError == IndexOf(ServerError)

AllOutcomes == 1 .. Len(Outcomes)

(***************************************************************************)
(* State.                                                                  *)
(***************************************************************************)
VARIABLES
    N,                \* config["nodes"].length
    F,                \* PBFTClient.F
    request,          \* per call: the path and options handed to window.fetch
    fetches,          \* per call and node: window.fetch invocations
    plan,             \* per call and node: what the node's race will settle with
    phase,            \* per call and node: where the node's promise chain is
    responseMap,      \* per call: rendered key -> count
    promiseResolved,  \* per call: the one-shot latch
    promise,          \* per call: state of the promise _broadcast returned
    settles,          \* per call: resolve()/reject() invocations
    entry,            \* per invocation: the method the caller invoked
    email,            \* per invocation: options.email
    pc,               \* per invocation: the handler that runs next
    lookupP,          \* per invocation: the promise PBFTClient.lookup returned
    chain,            \* per invocation: the rejection travelling down upload's chain
    result,           \* per invocation: the promise the caller holds
    lcall,            \* per invocation: its lookup broadcast (0: none)
    wcall,            \* per invocation: its PUT or POST broadcast (0: none)
    ring,             \* fingerprints of the private keys the local keyring holds
    pbftClient,       \* KeyServer._pbftClient is set
    configLoads,      \* fetches of config/cluster.json
    passPrompts,      \* prompt("What is the password for the old key?") calls
    sigPrompts        \* window.prompt(... signature ...) calls

clusterVars == << N, F >>
callVars ==
    << request, fetches, plan, phase, responseMap, promiseResolved, promise,
       settles >>
flowVars == << entry, email, pc, lookupP, chain, result, lcall, wcall >>
envVars == << ring, pbftClient, configLoads, passPrompts, sigPrompts >>
vars == << clusterVars, callVars, flowVars, envVars >>

Nodes == 1 .. N

\* Math.ceil(a / b) for b > 0.
Ceil(a, b) == (a + b - 1) \div b

\* constructor: this.F = Math.ceil((this.nodes.length - 1) / 3)
FaultTolerance(n) == Ceil(n - 1, 3)

\* A threshold that is one too low.
QuorumThresholdLow(f) == f

\* the count at which processResponse settles the call: this.F + 1
QuorumThreshold(f) == f + 1

\* new Proxy(new Map(), {get: (map, name) => name in map ? map[name] : 0})
MapGet(map, k) == IF k \in DOMAIN map THEN map[k] ELSE 0

MapPut(map, k, v) ==
    [x \in DOMAIN map \cup {k} |-> IF x = k THEN v ELSE map[x]]

EmptyMap == [x \in {} |-> 0]

\* The promise of one broadcast: pending, fulfilled with {status, statusText,
\* body}, or rejected with an error string.
Pending ==
    [state |-> "pending", status |-> 0, statusText |-> EmptyStr,
     body |-> NoBody, error |-> EmptyStr]

Fulfilled(status, statusText, body) ==
    [state |-> "fulfilled", status |-> status, statusText |-> statusText,
     body |-> body, error |-> EmptyStr]

Rejected(error) ==
    [state |-> "rejected", status |-> 0, statusText |-> EmptyStr,
     body |-> NoBody, error |-> error]

\* resolve(v) / reject(e) of a promise: only the first call has an effect.
Settle(p, v) == IF p.state = "pending" THEN v ELSE p

\* options: method ? {method, body: JSON.stringify(body)} : {method: "GET"}.
\* A method of "" stands for the omitted argument; body names the signature
\* the payload carries.
Options(path, method, body) ==
    IF method # ""
    THEN [path |-> path, method |-> method, body |-> body]
    ELSE [path |-> path, method |-> "GET", body |-> "none"]

NoRequest == [path |-> EmptyStr, method |-> "none", body |-> "none"]

Unused(c) == request[c] = NoRequest

(***************************************************************************)
(* The values the promises of lookup and upload carry.                     *)
(***************************************************************************)
Undefined ==
    [kind |-> "undefined", text |-> EmptyStr, status |-> 0,
     statusText |-> EmptyStr, body |-> NoBody]

\* a string, such as the error _broadcast rejects with
StringVal(s) == [Undefined EXCEPT !.kind = "string", !.text = s]

\* {status, statusText, body}
ResponseVal(status, statusText, body) ==
    [kind |-> "response", text |-> EmptyStr, status |-> status,
     statusText |-> statusText, body |-> body]

\* JSON.stringify(payload) of lookup: the fixed fields, userIds[0].email and
\* publicKeyArmored: r.body
CredentialVal(em, body) ==
    [kind |-> "credential", text |-> em, status |-> 0,
     statusText |-> EmptyStr, body |-> body]

\* an Error object, by name
ErrorVal(name) == [Undefined EXCEPT !.kind = name]

\* A rethrown value that is the error string itself.
Unwrapped(e) == StringVal(e)

\* {message: e}
WrappedVal(e) == [Undefined EXCEPT !.kind = "wrapped", !.text = e]

PendingP == [state |-> "pending", val |-> Undefined]
FulfilledP(v) == [state |-> "fulfilled", val |-> v]
RejectedP(v) == [state |-> "rejected", val |-> v]

StrOnlyEmail ==
    << "O", "n", "l", "y", " ", "l", "o", "o", "k", "u", "p", " ", "b",
       "y", " ", "e", "m", "a", "i", "l", " ", "i", "s", " ", "c", "u",
       "r", "r", "e", "n", "t", "l", "y", " ", "s", "u", "p", "p", "o",
       "r", "t", "e", "d", " ", "b", "y", " ", "P", "B", "F", "T" >>

\* The address the caller owns, and the two keys that can be in its keyring:
\* the one being uploaded ("new") and an earlier one ("old").
UserEmail == << "a", "@", "b" >>
Emails == {EmptyStr, UserEmail}
Fingerprints == {"old", "new"}

EncodeChar(ch) == IF ch = "@" THEN << "%", "4", "0" >> ELSE << ch >>

\* encodeURIComponent(s)
RECURSIVE EncodeURIComponent(_)
EncodeURIComponent(s) ==
    IF s = EmptyStr THEN EmptyStr
    ELSE EncodeChar(Head(s)) \o EncodeURIComponent(Tail(s))

StrNull == << "n", "u", "l", "l" >>

\* _path(email) as `${path}` puts it into the url: the query string, or the
\* text of null.
PathText(em) ==
    IF em # EmptyStr
    THEN << "?", "n", "a", "m", "e", "=" >> \o EncodeURIComponent(em)
    ELSE StrNull

(***************************************************************************)
(* Initial states.                                                         *)
(***************************************************************************)
InitCalls ==
    /\ request = [c \in Calls |-> NoRequest]
    /\ fetches = [c \in Calls |-> [n \in Nodes |-> 0]]
    /\ plan = [c \in Calls |-> [n \in Nodes |-> 0]]
    /\ phase = [c \in Calls |-> [n \in Nodes |-> "idle"]]
    /\ responseMap = [c \in Calls |-> EmptyMap]
    /\ promiseResolved = [c \in Calls |-> FALSE]
    /\ promise = [c \in Calls |-> Pending]
    /\ settles = [c \in Calls |-> 0]

InitFlows ==
    /\ entry = [o \in Ops |-> "none"]
    /\ email = [o \in Ops |-> EmptyStr]
    /\ pc = [o \in Ops |-> "idle"]
    /\ lookupP = [o \in Ops |-> PendingP]
    /\ chain = [o \in Ops |-> PendingP]
    /\ result = [o \in Ops |-> PendingP]
    /\ lcall = [o \in Ops |-> 0]
    /\ wcall = [o \in Ops |-> 0]
    /\ pbftClient = FALSE
    /\ configLoads = 0
    /\ passPrompts = 0
    /\ sigPrompts = 0

\* new PBFTClient(config) for a configuration of n nodes.
Construct(n) ==
    /\ N = n
    /\ F = FaultTolerance(n)

Init ==
    /\ \E n \in 1 .. MaxNodes : Construct(n)
    /\ InitCalls
    /\ InitFlows
    /\ ring = {}

InitQuorum ==
    /\ \E n \in QuorumSizes : Construct(n)
    /\ InitCalls
    /\ InitFlows
    /\ ring = {}

InitFlow ==
    /\ \E n \in 1 .. MaxFlowNodes : Construct(n)
    /\ InitCalls
    /\ InitFlows
    /\ ring \in SUBSET Fingerprints

(***************************************************************************)
(* _broadcast                                                              *)
(***************************************************************************)
\* The cluster's answers to one call, up to renaming of nodes (every node
\* gets the same handler and the same counters): node n answers
\* Outcomes[p[n]], with p[n] drawn from outs.
SortedPlans(outs) ==
    { p \in [Nodes -> outs] : \A i, j \in Nodes : i <= j => p[i] <= p[j] }

\* What node n's race settles with in call c.
Raced(c, n) == Outcomes[plan[c][n]]

\* _broadcast(path, method, body): one fetch per node, each raced against a
\* timer, each race chained to processResponse. plans: what the cluster may
\* answer to this call.
BroadcastCall(c, path, method, body, plans) ==
    /\ Unused(c)
    /\ request' = [request EXCEPT ![c] = Options(path, method, body)]
    /\ fetches' = [fetches EXCEPT ![c] = [n \in Nodes |-> fetches[c][n] + 1]]
    /\ \E pl \in plans : plan' = [plan EXCEPT ![c] = pl]
    /\ phase' = [phase EXCEPT ![c] = [n \in Nodes |-> "inflight"]]
    /\ responseMap' = [responseMap EXCEPT ![c] = EmptyMap]
    /\ promiseResolved' = [promiseResolved EXCEPT ![c] = FALSE]
    /\ promise' = [promise EXCEPT ![c] = Pending]
    /\ UNCHANGED settles

\* _broadcast invoked on its own.
Broadcast(c, path, method, body, plans) ==
    /\ BroadcastCall(c, path, method, body, plans)
    /\ UNCHANGED << clusterVars, flowVars, envVars >>

\* The node's fetch wins the race; processResponse starts reading the body
\* (response.json() or response.text()).
NodeResponds(c, n) ==
    /\ phase[c][n] = "inflight"
    /\ Raced(c, n) # RequestTimeout
    /\ phase' = [phase EXCEPT ![c][n] = "reading"]
    /\ UNCHANGED << request, fetches, plan, responseMap, promiseResolved,
                    promise, settles, clusterVars, flowVars, envVars >>

\* A timer handler that fetches from the node again.
NodeTimesOutRefetches(c, n) ==
    /\ phase[c][n] = "inflight"
    /\ Raced(c, n) = RequestTimeout
    /\ phase' = [phase EXCEPT ![c][n] = "reading"]
    /\ fetches' = [fetches EXCEPT ![c][n] = @ + 1]
    /\ UNCHANGED << request, plan, responseMap, promiseResolved, promise,
                    settles, clusterVars, flowVars, envVars >>

\* A timer handler whose outcome is dropped instead of counted.
NodeTimesOutUncounted(c, n) ==
    /\ phase[c][n] = "inflight"
    /\ Raced(c, n) = RequestTimeout
    /\ phase' = [phase EXCEPT ![c][n] = "counted"]
    /\ UNCHANGED << request, fetches, plan, responseMap, promiseResolved,
                    promise, settles, clusterVars, flowVars, envVars >>

\* The node's timer wins the race; processResponse takes the failure branch
\* with Promise.resolve("").
NodeTimesOut(c, n) ==
    /\ phase[c][n] = "inflight"
    /\ Raced(c, n) = RequestTimeout
    /\ phase' = [phase EXCEPT ![c][n] = "reading"]
    /\ UNCHANGED << request, fetches, plan, responseMap, promiseResolved,
                    promise, settles, clusterVars, flowVars, envVars >>

\* The body processResponse's callback receives.
BodyRead(response) ==
    IF response.ok THEN response.body
    ELSE IF response.hasText THEN response.body
    ELSE StrBody(EmptyStr)

\* The key a response is counted under.
KeyOf(response) ==
    RenderKey(response.status, response.statusText, BodyRead(response))

\* A count that ignores the key: one more than the number of keys seen.
IncrementShared(map, key) ==
    Cardinality({k \in DOMAIN map : map[k] > 0}) + 1

\* A count that goes up by two.
IncrementByTwo(map, key) == MapGet(map, key) + 2

\* The count after `responseMap[key] += 1`.
Increment(map, key) == MapGet(map, key) + 1

\* The test without the latch.
FiresUnlatched(count, f, resolved) == count = QuorumThreshold(f)

\* `count == this.F + 1 && !promiseResolved`
Fires(count, f, resolved) == count = QuorumThreshold(f) /\ ~resolved

\* A success handler whose latch is shared by every call.
CountSuccessSharedLatch(c, n) ==
    LET response == Raced(c, n)
        body == BodyRead(response)
        res == RenderKey(response.status, response.statusText, body)
        count == Increment(responseMap[c], res)
        fire == Fires(count, F, \E d \in Calls : promiseResolved[d])
    IN  /\ phase[c][n] = "reading"
        /\ response.ok
        /\ phase' = [phase EXCEPT ![c][n] = "counted"]
        /\ responseMap' = [responseMap EXCEPT ![c] = MapPut(@, res, count)]
        /\ promiseResolved' = [promiseResolved EXCEPT ![c] = @ \/ fire]
        /\ promise' = [promise EXCEPT ![c] =
               IF fire
               THEN Settle(@, Fulfilled(response.status, response.statusText, body))
               ELSE @]
        /\ settles' = [settles EXCEPT ![c] = IF fire THEN @ + 1 ELSE @]
        /\ UNCHANGED << request, fetches, plan, clusterVars, flowVars, envVars >>

\* response.json().then(body => ...): count, and resolve at F + 1.
CountSuccess(c, n) ==
    LET response == Raced(c, n)
        body == BodyRead(response)
        res == RenderKey(response.status, response.statusText, body)
        count == Increment(responseMap[c], res)
        fire == Fires(count, F, promiseResolved[c])
    IN  /\ phase[c][n] = "reading"
        /\ response.ok
        /\ phase' = [phase EXCEPT ![c][n] = "counted"]
        /\ responseMap' = [responseMap EXCEPT ![c] = MapPut(@, res, count)]
        /\ promiseResolved' = [promiseResolved EXCEPT ![c] = @ \/ fire]
        /\ promise' = [promise EXCEPT ![c] =
               IF fire
               THEN Settle(@, Fulfilled(response.status, response.statusText, body))
               ELSE @]
        /\ settles' = [settles EXCEPT ![c] = IF fire THEN @ + 1 ELSE @]
        /\ UNCHANGED << request, fetches, plan, clusterVars, flowVars, envVars >>

\* (response.text == undefined ? Promise.resolve("") : response.text())
\*   .then(body => ...): count, and reject at F + 1.
CountFailure(c, n) ==
    LET response == Raced(c, n)
        body == BodyRead(response)
        error == RenderKey(response.status, response.statusText, body)
        count == Increment(responseMap[c], error)
        fire == Fires(count, F, promiseResolved[c])
    IN  /\ phase[c][n] = "reading"
        /\ ~response.ok
        /\ phase' = [phase EXCEPT ![c][n] = "counted"]
        /\ responseMap' = [responseMap EXCEPT ![c] = MapPut(@, error, count)]
        /\ promiseResolved' = [promiseResolved EXCEPT ![c] = @ \/ fire]
        /\ promise' = [promise EXCEPT ![c] =
               IF fire THEN Settle(@, Rejected(error)) ELSE @]
        /\ settles' = [settles EXCEPT ![c] = IF fire THEN @ + 1 ELSE @]
        /\ UNCHANGED << request, fetches, plan, clusterVars, flowVars, envVars >>

PathGet == PathText(UserEmail)

\* One broadcast call against a cluster of 1..MaxNodes nodes that may answer
\* with any of the outcomes.
StartBroadcast == Broadcast(1, PathGet, "", "none", SortedPlans(AllOutcomes))
Respond == \E n \in Nodes : NodeResponds(1, n)
TimeOut == \E n \in Nodes : NodeTimesOut(1, n)
Success == \E n \in Nodes : CountSuccess(1, n)
Failure == \E n \in Nodes : CountFailure(1, n)

Next == StartBroadcast \/ Respond \/ TimeOut \/ Success \/ Failure

Spec == Init /\ [][Next]_vars

\* The same call when every handler that can run does run: each timer fires
\* after 7000 ms and each body read completes.
SpecFair == Spec /\ WF_vars(Next)

\* One broadcast call against a cluster of 1, 4, 7 or 10 nodes; the larger the
\* cluster, the fewer different answers its nodes give.
QuorumOutcomes ==
    IF N <= 4 THEN AllOutcomes
    ELSE IF N <= 7 THEN {IdxX, IdxY, IdxTimeout}
    ELSE {IdxX, IdxTimeout}

QuorumBroadcast ==
    Broadcast(1, PathGet, "", "none", SortedPlans(QuorumOutcomes))

NextQuorum == QuorumBroadcast \/ Respond \/ TimeOut \/ Success \/ Failure

SpecQuorum == InitQuorum /\ [][NextQuorum]_vars

(***************************************************************************)
(* PBFTClient.lookup, PBFTClient.upload and the KeyServer wrapper.         *)
(* An invocation o runs one handler per action; pc[o] names the next one.  *)
(***************************************************************************)
\* The broadcast the next _broadcast call of this run gets.
FreeCalls == {c \in Calls : Unused(c)}
FreeCall == CHOOSE c \in FreeCalls : \A d \in FreeCalls : c <= d

\* What the cluster may answer to a lookup and to a PUT or POST.
FlowOutcomes == {IdxX, IdxNotFound, IdxTimeout, IdxServerError}

\* An invocation starts when the ones before it have ended.
CanStart(o) ==
    /\ pc[o] = "idle"
    /\ \A p \in Ops : p < o => pc[p] = "done"

\* lookup(email): return this._broadcast(this._path(email)).then(..).catch(..)
LookupCall(o, em) ==
    /\ FreeCalls # {}
    /\ BroadcastCall(FreeCall, PathText(em), "", "none", SortedPlans(FlowOutcomes))
    /\ lcall' = [lcall EXCEPT ![o] = FreeCall]
    /\ pc' = [pc EXCEPT ![o] = "lookup"]

\* A caller invokes PBFTClient.lookup(email).
ClientLookup(o, em) ==
    /\ CanStart(o)
    /\ entry' = [entry EXCEPT ![o] = "client.lookup"]
    /\ email' = [email EXCEPT ![o] = em]
    /\ LookupCall(o, em)
    /\ UNCHANGED << clusterVars, lookupP, chain, result, wcall, envVars >>

\* A caller invokes PBFTClient.upload(options): it starts with
\* this.lookup(options.email).
ClientUpload(o, em) ==
    /\ CanStart(o)
    /\ entry' = [entry EXCEPT ![o] = "client.upload"]
    /\ email' = [email EXCEPT ![o] = em]
    /\ LookupCall(o, em)
    /\ UNCHANGED << clusterVars, lookupP, chain, result, wcall, envVars >>

\* getPBFTClient(): the cached client, or a fetch of config/cluster.json. The
\* else branch returns the new client without storing it.
GetPBFTClient(o) ==
    IF pbftClient
    THEN /\ pc' = [pc EXCEPT ![o] = "client"]
         /\ UNCHANGED << pbftClient, configLoads >>
    ELSE /\ pc' = [pc EXCEPT ![o] = "config"]
         /\ configLoads' = configLoads + 1
         /\ UNCHANGED pbftClient

\* A caller invokes KeyServer.lookup(options).
KeyServerLookup(o, em) ==
    /\ CanStart(o)
    /\ entry' = [entry EXCEPT ![o] = "keyserver.lookup"]
    /\ email' = [email EXCEPT ![o] = em]
    /\ IF em = EmptyStr
       THEN /\ result' = [result EXCEPT ![o] = RejectedP(StringVal(StrOnlyEmail))]
            /\ pc' = [pc EXCEPT ![o] = "done"]
            /\ UNCHANGED << pbftClient, configLoads >>
       ELSE /\ GetPBFTClient(o)
            /\ UNCHANGED result
    /\ UNCHANGED << clusterVars, callVars, lookupP, chain, lcall, wcall, ring,
                    passPrompts, sigPrompts >>

\* A caller invokes KeyServer.upload(options).
KeyServerUpload(o, em) ==
    /\ CanStart(o)
    /\ entry' = [entry EXCEPT ![o] = "keyserver.upload"]
    /\ email' = [email EXCEPT ![o] = em]
    /\ GetPBFTClient(o)
    /\ UNCHANGED << clusterVars, callVars, lookupP, chain, result, lcall, wcall,
                    ring, passPrompts, sigPrompts >>

\* response => response.json(), response => new PBFTClient(response), and
\* client => client.lookup(options.email) or client.upload(options).
ClientReady(o) ==
    /\ pc[o] \in {"config", "client"}
    /\ F' = IF pc[o] = "config" THEN FaultTolerance(N) ELSE F
    /\ LookupCall(o, email[o])
    /\ UNCHANGED << N, entry, email, lookupP, chain, result, wcall, envVars >>

\* A catch handler that wraps what it rethrows.
LookupCatchWraps(e) == RejectedP(WrappedVal(e))

\* What lookup's catch handler leaves in the promise: throw e.
LookupCatchValue(e) == RejectedP(StringVal(e))

\* What lookup's then handler returns for the resolved r.
LookupThenValue(em, r) == FulfilledP(CredentialVal(em, r.body))

\* The handler that follows lookup's promise in the invocation's chain.
AfterLookup(o, p) ==
    CASE entry[o] = "client.lookup" -> "done"
      [] entry[o] = "keyserver.lookup" ->
           IF p.state = "fulfilled" THEN "keyserver.parse" ELSE "keyserver.log"
      [] OTHER ->
           IF p.state = "fulfilled" THEN "upload.find" ELSE "upload.catch"

LookupSettles(o, p) ==
    /\ lookupP' = [lookupP EXCEPT ![o] = p]
    /\ result' = [result EXCEPT ![o] =
           IF entry[o] = "client.lookup" THEN p ELSE @]
    /\ chain' = [chain EXCEPT ![o] =
           IF entry[o] \in {"client.upload", "keyserver.upload"}
              /\ p.state = "rejected"
           THEN p ELSE @]
    /\ pc' = [pc EXCEPT ![o] = AfterLookup(o, p)]
    /\ UNCHANGED << clusterVars, callVars, entry, email, lcall, wcall, envVars >>

\* A then handler that does not wait for the broadcast to resolve.
LookupThenEarly(o) ==
    /\ pc[o] = "lookup"
    /\ promise[lcall[o]].state # "rejected"
    /\ LookupSettles(o, LookupThenValue(email[o], promise[lcall[o]]))

\* lookup's .then(r => { ...; return JSON.stringify(payload); })
LookupThen(o) ==
    /\ pc[o] = "lookup"
    /\ promise[lcall[o]].state = "fulfilled"
    /\ LookupSettles(o, LookupThenValue(email[o], promise[lcall[o]]))

\* lookup's .catch(e => { console.log(..); throw e; })
LookupCatch(o) ==
    /\ pc[o] = "lookup"
    /\ promise[lcall[o]].state = "rejected"
    /\ LookupSettles(o, LookupCatchValue(promise[lcall[o]].error))

\* KeyServer.lookup's .then(response => JSON.parse(response.body)): response
\* is the string lookup returned, response.body is undefined and
\* JSON.parse(undefined) throws.
KeyServerParse(o) ==
    /\ pc[o] = "keyserver.parse"
    /\ pc' = [pc EXCEPT ![o] = "keyserver.log"]
    /\ UNCHANGED << clusterVars, callVars, entry, email, lookupP, chain, result,
                    lcall, wcall, envVars >>

\* KeyServer.lookup's .catch(error => console.log(error))
KeyServerLog(o) ==
    /\ pc[o] = "keyserver.log"
    /\ result' = [result EXCEPT ![o] = FulfilledP(Undefined)]
    /\ pc' = [pc EXCEPT ![o] = "done"]
    /\ UNCHANGED << clusterVars, callVars, entry, email, lookupP, chain, lcall,
                    wcall, envVars >>

\* ring.getKeyByAddress([email], {pub: false, priv: true})[email]
LockedKeys(em) == IF em = UserEmail THEN ring ELSE {}

\* The filter left out: every locked key of the address.
LockedKeysUnfiltered(em) == LockedKeys(em)

\* lockedKeys[email].filter(k => fingerprint != excludeKey's fingerprint):
\* the key being uploaded is "new".
LockedKeysEx(em) == LockedKeys(em) \ {"new"}

\* upload's .then(() => this.findPrivateKey(email, publicKey)): throw without
\* an eligible key, else ask for the passphrase and unlock the first one.
FindPrivateKey(o) ==
    /\ pc[o] = "upload.find"
    /\ IF LockedKeysEx(email[o]) = {}
       THEN /\ chain' = [chain EXCEPT ![o] = RejectedP(ErrorVal("OwnershipError"))]
            /\ pc' = [pc EXCEPT ![o] = "upload.catch"]
            /\ UNCHANGED passPrompts
       ELSE /\ passPrompts' = passPrompts + 1
            /\ pc' = [pc EXCEPT ![o] = "upload.unlock"]
            /\ UNCHANGED chain
    /\ UNCHANGED << clusterVars, callVars, entry, email, lookupP, result, lcall,
                    wcall, ring, pbftClient, configLoads, sigPrompts >>

\* pgpModel.unlockKey resolves; upload's .then(key => { oldPrivateKey = key;
\* return this.signPayload(..); }) starts signing.
UnlockResolves(o) ==
    /\ pc[o] = "upload.unlock"
    /\ pc' = [pc EXCEPT ![o] = "upload.sign"]
    /\ UNCHANGED << clusterVars, callVars, entry, email, lookupP, chain, result,
                    lcall, wcall, envVars >>

\* pgpModel.unlockKey rejects (a wrong passphrase).
UnlockRejects(o) ==
    /\ pc[o] = "upload.unlock"
    /\ chain' = [chain EXCEPT ![o] = RejectedP(ErrorVal("UnlockError"))]
    /\ pc' = [pc EXCEPT ![o] = "upload.catch"]
    /\ UNCHANGED << clusterVars, callVars, entry, email, lookupP, result, lcall,
                    wcall, envVars >>

\* upload's .then(signedPayload => this._broadcast("", "PUT", signedPayload))
SubmitUpdate(o) ==
    /\ pc[o] = "upload.sign"
    /\ FreeCalls # {}
    /\ BroadcastCall(FreeCall, EmptyStr, "PUT", "old", SortedPlans(FlowOutcomes))
    /\ wcall' = [wcall EXCEPT ![o] = FreeCall]
    /\ pc' = [pc EXCEPT ![o] = "put"]
    /\ UNCHANGED << clusterVars, entry, email, lookupP, chain, result, lcall,
                    envVars >>

\* What a write broadcast resolved with, as upload returns it.
Committed(c) ==
    FulfilledP(ResponseVal(promise[c].status, promise[c].statusText,
                           promise[c].body))

\* PUT's .then(r => { ...; ring.removeKey(oldPrivateKey fingerprint); return r; })
UpdateThen(o) ==
    /\ pc[o] = "put"
    /\ promise[wcall[o]].state = "fulfilled"
    /\ ring' = ring \ {"old"}
    /\ result' = [result EXCEPT ![o] = Committed(wcall[o])]
    /\ pc' = [pc EXCEPT ![o] = "done"]
    /\ UNCHANGED << clusterVars, callVars, entry, email, lookupP, chain, lcall,
                    wcall, pbftClient, configLoads, passPrompts, sigPrompts >>

\* A catch handler of the PUT that retires the old key as well.
UpdateCatchRetires(o) ==
    /\ pc[o] = "put"
    /\ promise[wcall[o]].state = "rejected"
    /\ ring' = ring \ {"old"}
    /\ chain' = [chain EXCEPT ![o] = RejectedP(WrappedVal(promise[wcall[o]].error))]
    /\ pc' = [pc EXCEPT ![o] = "upload.catch"]
    /\ UNCHANGED << clusterVars, callVars, entry, email, lookupP, result, lcall,
                    wcall, pbftClient, configLoads, passPrompts, sigPrompts >>

\* PUT's .catch(e => { ...; throw {message: e}; })
UpdateCatch(o) ==
    /\ pc[o] = "put"
    /\ promise[wcall[o]].state = "rejected"
    /\ chain' = [chain EXCEPT ![o] = RejectedP(WrappedVal(promise[wcall[o]].error))]
    /\ pc' = [pc EXCEPT ![o] = "upload.catch"]
    /\ UNCHANGED << clusterVars, callVars, entry, email, lookupP, result, lcall,
                    wcall, envVars >>

\* The test with equality in place of startsWith.
IsNotFoundExact(e) ==
    e.kind = "string" /\ e.text = NumberToString(404)

\* typeof e === "string" && e.startsWith(404)
IsNotFound(e) ==
    e.kind = "string" /\ StartsWith(e.text, NumberToString(404))

\* upload's outer .catch, not-found branch: ask for the signature and
\* _broadcast("", "POST", appendSignature(genPayload(..), signature)).
SubmitCreate(o) ==
    /\ pc[o] = "upload.catch"
    /\ IsNotFound(chain[o].val)
    /\ FreeCalls # {}
    /\ sigPrompts' = sigPrompts + 1
    /\ BroadcastCall(FreeCall, EmptyStr, "POST", "authority",
                     SortedPlans(FlowOutcomes))
    /\ wcall' = [wcall EXCEPT ![o] = FreeCall]
    /\ pc' = [pc EXCEPT ![o] = "post"]
    /\ UNCHANGED << clusterVars, entry, email, lookupP, chain, result, lcall,
                    ring, pbftClient, configLoads, passPrompts >>

\* upload's outer .catch, else branch: throw e.
UploadFails(o) ==
    /\ pc[o] = "upload.catch"
    /\ ~IsNotFound(chain[o].val)
    /\ result' = [result EXCEPT ![o] = RejectedP(chain[o].val)]
    /\ pc' = [pc EXCEPT ![o] = "done"]
    /\ UNCHANGED << clusterVars, callVars, entry, email, lookupP, chain, lcall,
                    wcall, envVars >>

\* POST's .then(r => { ...; return r; })
CreateThen(o) ==
    /\ pc[o] = "post"
    /\ promise[wcall[o]].state = "fulfilled"
    /\ result' = [result EXCEPT ![o] = Committed(wcall[o])]
    /\ pc' = [pc EXCEPT ![o] = "done"]
    /\ UNCHANGED << clusterVars, callVars, entry, email, lookupP, chain, lcall,
                    wcall, envVars >>

\* POST's .catch(e => { ...; throw {message: e}; })
CreateCatch(o) ==
    /\ pc[o] = "post"
    /\ promise[wcall[o]].state = "rejected"
    /\ result' = [result EXCEPT ![o] =
           RejectedP(WrappedVal(promise[wcall[o]].error))]
    /\ pc' = [pc EXCEPT ![o] = "done"]
    /\ UNCHANGED << clusterVars, callVars, entry, email, lookupP, chain, lcall,
                    wcall, envVars >>

(***************************************************************************)
(* Lookups and uploads, through PBFTClient and through KeyServer, against  *)
(* a cluster of 1..MaxFlowNodes nodes.                                     *)
(***************************************************************************)
CallClientLookup == \E o \in Ops, em \in Emails : ClientLookup(o, em)
CallClientUpload == \E o \in Ops, em \in Emails : ClientUpload(o, em)
CallKeyServerLookup == \E o \in Ops, em \in Emails : KeyServerLookup(o, em)
CallKeyServerUpload == \E o \in Ops, em \in Emails : KeyServerUpload(o, em)
StepClientReady == \E o \in Ops : ClientReady(o)
StepLookupThen == \E o \in Ops : LookupThen(o)
StepLookupCatch == \E o \in Ops : LookupCatch(o)
StepKeyServerParse == \E o \in Ops : KeyServerParse(o)
StepKeyServerLog == \E o \in Ops : KeyServerLog(o)
StepFindPrivateKey == \E o \in Ops : FindPrivateKey(o)
StepUnlockResolves == \E o \in Ops : UnlockResolves(o)
StepUnlockRejects == \E o \in Ops : UnlockRejects(o)
StepSubmitUpdate == \E o \in Ops : SubmitUpdate(o)
StepUpdateThen == \E o \in Ops : UpdateThen(o)
StepUpdateCatch == \E o \in Ops : UpdateCatch(o)
StepSubmitCreate == \E o \in Ops : SubmitCreate(o)
StepUploadFails == \E o \in Ops : UploadFails(o)
StepCreateThen == \E o \in Ops : CreateThen(o)
StepCreateCatch == \E o \in Ops : CreateCatch(o)
NodeRespondsAny == \E c \in Calls, n \in Nodes : NodeResponds(c, n)
NodeTimesOutAny == \E c \in Calls, n \in Nodes : NodeTimesOut(c, n)
CountSuccessAny == \E c \in Calls, n \in Nodes : CountSuccess(c, n)
CountFailureAny == \E c \in Calls, n \in Nodes : CountFailure(c, n)

NextFlow ==
    \/ CallClientLookup \/ CallClientUpload
    \/ CallKeyServerLookup \/ CallKeyServerUpload
    \/ StepClientReady \/ StepLookupThen \/ StepLookupCatch
    \/ StepKeyServerParse \/ StepKeyServerLog
    \/ StepFindPrivateKey \/ StepUnlockResolves \/ StepUnlockRejects
    \/ StepSubmitUpdate \/ StepUpdateThen \/ StepUpdateCatch
    \/ StepSubmitCreate \/ StepUploadFails \/ StepCreateThen \/ StepCreateCatch
    \/ NodeRespondsAny \/ NodeTimesOutAny \/ CountSuccessAny \/ CountFailureAny

SpecFlow == InitFlow /\ [][NextFlow]_vars

\* One invocation on its own: lookup or upload, through PBFTClient or through
\* KeyServer, with no invocation after it.
InitOne ==
    /\ \E n \in 1 .. MaxFlowNodes : Construct(n)
    /\ InitCalls
    /\ entry = [o \in Ops |-> "none"]
    /\ email = [o \in Ops |-> EmptyStr]
    /\ pc = [o \in Ops |-> IF o = 1 THEN "idle" ELSE "done"]
    /\ lookupP = [o \in Ops |-> PendingP]
    /\ chain = [o \in Ops |-> PendingP]
    /\ result = [o \in Ops |-> PendingP]
    /\ lcall = [o \in Ops |-> 0]
    /\ wcall = [o \in Ops |-> 0]
    /\ pbftClient = FALSE
    /\ configLoads = 0
    /\ passPrompts = 0
    /\ sigPrompts = 0
    /\ ring \in SUBSET Fingerprints

SpecOne == InitOne /\ [][NextFlow]_vars

(***************************************************************************)
(* Properties of one broadcast call.                                       *)
(***************************************************************************)
Active(c) == ~Unused(c)
Settled(c) == promise[c].state # "pending"
CountedNodes(c) == {n \in Nodes : phase[c][n] = "counted"}
AllCounted(c) == Active(c) /\ CountedNodes(c) = Nodes

\* The nodes whose outcome in call c renders to key.
NodesWithKey(c, key) == {n \in Nodes : KeyOf(Raced(c, n)) = key}
PlannedKeys(c) == {KeyOf(Raced(c, n)) : n \in Nodes}

\* C1: for N in {1, 4, 7, 10} a broadcast call settles at most once, is
\* pending in every state where all counters are at most F, and is settled in
\* every state where some counter is at least F + 1.
C1_SettlesOnceAtQuorum ==
    /\ settles[1] <= 1
    /\ Settled(1) <=> settles[1] = 1
    /\ Settled(1) <=>
         \E k \in DOMAIN responseMap[1] : responseMap[1][k] >= F + 1

\* A cluster of 10 in which two keys have both passed F + 1 and the call has
\* settled once.
C1_Witness ==
    /\ N = 10
    /\ settles[1] = 1
    /\ Cardinality({k \in DOMAIN responseMap[1] : responseMap[1][k] >= F + 1}) = 2

\* C2: a call that resolves with {status, statusText, body} has at least F + 1
\* counted nodes that answered Success with exactly these three fields; a call
\* that rejects with an error has at least F + 1 counted nodes whose Failure
\* renders to exactly that error.
C2_ResultBackedByQuorum ==
    /\ promise[1].state = "fulfilled" =>
         Cardinality({n \in CountedNodes(1) :
             /\ Raced(1, n).ok
             /\ Raced(1, n).status = promise[1].status
             /\ Raced(1, n).statusText = promise[1].statusText
             /\ BodyRead(Raced(1, n)) = promise[1].body}) >= F + 1
    /\ promise[1].state = "rejected" =>
         Cardinality({n \in CountedNodes(1) :
             /\ ~Raced(1, n).ok
             /\ KeyOf(Raced(1, n)) = promise[1].error}) >= F + 1

\* The nodes that never answer in call c.
SilentNodes(c) == {n \in Nodes : Raced(c, n) = RequestTimeout}

\* C3: when at most F nodes never answer and every other node returns the
\* same Success outcome K, the call has resolved with K once every node's
\* outcome has been delivered.
C3_ToleratesSilentNodes ==
    \A k \in AllOutcomes :
        ( /\ AllCounted(1)
          /\ Outcomes[k].ok
          /\ Cardinality(SilentNodes(1)) <= F
          /\ \A n \in Nodes \ SilentNodes(1) : plan[1][n] = k )
        => promise[1] =
             Fulfilled(Outcomes[k].status, Outcomes[k].statusText, Outcomes[k].body)

\* C4: the derived F satisfies N >= 3F + 1.
C4_ClusterSizeBound == N >= 3 * F + 1

\* N = 4 and the nodes answer Success(X), Success(X), Success(Y), Timeout.
QuorumReachedScenario ==
    /\ N = 4
    /\ Active(1)
    /\ plan[1] = << IdxX, IdxX, IdxY, IdxTimeout >>

\* C5: in the scenario above the call is resolved with Success(X) exactly in
\* the states where two X have been counted, and is pending in all others; it
\* never resolves with Y and never rejects.
C5_QuorumReached ==
    QuorumReachedScenario =>
        IF Cardinality({n \in CountedNodes(1) : plan[1][n] = IdxX}) >= 2
        THEN promise[1] = Fulfilled(200, StrOK, StrBody(<< "X" >>))
        ELSE promise[1] = Pending

\* The scenario with Y and the timeout counted before the second X.
C5_Witness ==
    /\ QuorumReachedScenario
    /\ AllCounted(1)
    /\ promise[1] = Fulfilled(200, StrOK, StrBody(<< "X" >>))
    /\ responseMap[1][KeyOf(SuccessY)] = 1
    /\ responseMap[1][KeyOf(RequestTimeout)] = 1

\* No key is delivered by F + 1 nodes of call c.
IndeterminateSplit(c) ==
    /\ Active(c)
    /\ \A key \in PlannedKeys(c) : Cardinality(NodesWithKey(c, key)) <= F

\* C6: a call in which no ResponseKey is delivered by F + 1 nodes is pending
\* in every state, also after all N outcomes have been counted.
C6_IndeterminateStaysPending ==
    IndeterminateSplit(1) => promise[1] = Pending /\ settles[1] = 0

\* N = 4 with Success(X), Success(Y), Success(Z), Timeout, all counted.
C6_Witness ==
    /\ N = 4
    /\ plan[1] = << IdxX, IdxY, IdxZ, IdxTimeout >>
    /\ IndeterminateSplit(1)
    /\ AllCounted(1)
    /\ promise[1] = Pending

(***************************************************************************)
(* Two identical GET broadcasts against a stable cluster: every node gives *)
(* the second call the answer it gave the first.                           *)
(***************************************************************************)
StableOutcomes == {IdxX, IdxY, IdxObjA, IdxTimeout}

\* The caller repeats the call once the first has had every node's outcome.
FirstCall == Broadcast(1, PathGet, "", "none", SortedPlans(StableOutcomes))
SecondCall == AllCounted(1) /\ Broadcast(2, PathGet, "", "none", {plan[1]})

NextStable ==
    FirstCall \/ SecondCall \/ NodeRespondsAny \/ NodeTimesOutAny
        \/ CountSuccessAny \/ CountFailureAny

SpecStable == Init /\ [][NextStable]_vars

StableCluster == Active(1) /\ Active(2) /\ plan[1] = plan[2]
BothResolved ==
    promise[1].state = "fulfilled" /\ promise[2].state = "fulfilled"

SingleQuorumKey(c) ==
    Cardinality({key \in PlannedKeys(c) :
                    Cardinality(NodesWithKey(c, key)) >= F + 1}) <= 1

Contacted(o) ==
    \E c \in Calls, n \in Nodes :
        c \in {lcall[o], wcall[o]} /\ fetches[c][n] > 0

\* C8: an invocation with an empty identity issues no request to any node,
\* and when it has ended it has ended rejected, whichever entry point it
\* came through.
C8_EmptyIdentityRejectsLocally ==
    \A o \in Ops :
        entry[o] # "none" /\ email[o] = EmptyStr =>
            /\ ~Contacted(o)
            /\ pc[o] = "done" => result[o].state = "rejected"

\* Invocation o is a lookup whose broadcast rejected and that has ended.
LookupFailed(o) ==
    /\ entry[o] \in {"client.lookup", "keyserver.lookup"}
    /\ pc[o] = "done"
    /\ lcall[o] # 0
    /\ promise[lcall[o]].state = "rejected"

\* C9: when the lookup broadcast rejects with the failure string E, the
\* caller of lookup gets a rejection that carries exactly E.
C9_FailurePropagatesUnchanged ==
    \A o \in Ops :
        LookupFailed(o) =>
            result[o] = RejectedP(StringVal(promise[lcall[o]].error))

\* C10: the cluster configuration is fetched at most once, however many
\* lookups and uploads go through the keyserver.
C10_ConfigurationLoadedOnce == configLoads <= 1

(***************************************************************************)
(* Properties of PBFTClient.upload.                                        *)
(***************************************************************************)
Uploads == {"client.upload", "keyserver.upload"}

\* The calls that carry a given method.
CallsWith(method) == {c \in Calls : request[c].method = method}

\* Invocation o is an upload whose lookup rejected with a not-found error.
LookupNotFound(o) ==
    /\ entry[o] \in Uploads
    /\ lcall[o] # 0
    /\ promise[lcall[o]] = Rejected(KeyOf(NotFound))
    /\ pc[o] # "lookup"

\* C11: an upload whose lookup failed with a 404 error submits nothing
\* before the signature prompt, then submits one POST whose payload carries
\* the prompted signature, and never a PUT; every POST follows one prompt.
C11_NotFoundCreatesWithSignature ==
    /\ \A o \in Ops :
           LookupNotFound(o) =>
               /\ pc[o] = "upload.catch" => wcall[o] = 0
               /\ pc[o] \in {"post", "done"} =>
                      /\ wcall[o] \in CallsWith("POST")
                      /\ request[wcall[o]].body = "authority"
                      /\ sigPrompts >= 1
    /\ Cardinality(CallsWith("POST")) = sigPrompts

C11_Witness ==
    \E o \in Ops :
        /\ LookupNotFound(o)
        /\ pc[o] = "done"
        /\ result[o].state = "fulfilled"
        /\ wcall[o] \in CallsWith("POST")
        /\ sigPrompts = 1

\* The keyring holds no private key of invocation o's address other than the
\* key being uploaded.
NoEligibleKey(o) == email[o] # UserEmail \/ ring \subseteq {"new"}

OwnershipError == RejectedP(ErrorVal("OwnershipError"))

\* Invocation o is an upload that failed to find a key and has not ended.
OwnershipFailing(o) ==
    entry[o] \in Uploads /\ chain[o] = OwnershipError /\ pc[o] # "done"

\* C12: when the lookup has succeeded and the keyring holds no eligible key,
\* findPrivateKey fails with the ownership error; from then on the upload
\* issues no broadcast, no prompt and no key removal, and it ends rejected
\* with that error.
C12_OwnershipErrorStopsUpload ==
    [][\A o \in Ops :
          /\ ( /\ pc[o] = "upload.find"
               /\ NoEligibleKey(o)
               /\ pc'[o] # pc[o] )
             => chain'[o] = OwnershipError
          /\ (pc[o] = "upload.find" /\ NoEligibleKey(o)) \/ OwnershipFailing(o)
             => /\ request' = request
                /\ fetches' = fetches
                /\ wcall'[o] = 0
                /\ passPrompts' = passPrompts
                /\ sigPrompts' = sigPrompts
                /\ ring' = ring
                /\ pc'[o] \in {pc[o], "upload.catch", "done"}
                /\ pc'[o] = "done" => result'[o] = OwnershipError
      ]_vars

C12_Witness ==
    \E o \in Ops :
        /\ entry[o] \in Uploads
        /\ lookupP[o].state = "fulfilled"
        /\ result[o] = OwnershipError
        /\ ring = {"new"}
        /\ email[o] = UserEmail

\* The failure strings a quorum can reject with that do not come from a 404.
FatalErrors ==
    {KeyOf(Outcomes[i]) :
        i \in {j \in AllOutcomes : ~Outcomes[j].ok /\ Outcomes[j].status # 404}}

\* Invocation o is an upload whose lookup broadcast rejected with such a
\* string, and that has not ended.
LookupFatal(o) ==
    /\ entry[o] \in Uploads
    /\ lcall[o] # 0
    /\ promise[lcall[o]].state = "rejected"
    /\ promise[lcall[o]].error \in FatalErrors
    /\ pc[o] # "done"

\* C13: when the lookup of an upload rejects with a failure string that is
\* not a 404, the upload issues no write broadcast, no prompt and no key
\* removal, and it ends rejected with exactly that string.
C13_FatalLookupFailureAborts ==
    [][\A o \in Ops :
          LookupFatal(o) =>
              /\ request' = request
              /\ fetches' = fetches
              /\ wcall'[o] = 0
              /\ passPrompts' = passPrompts
              /\ sigPrompts' = sigPrompts
              /\ ring' = ring
              /\ pc'[o] \in {pc[o], "upload.catch", "done"}
              /\ pc'[o] = "done" =>
                     result'[o] = RejectedP(StringVal(promise[lcall[o]].error))
      ]_vars

C13_Witness ==
    \E o \in Ops :
        /\ entry[o] \in Uploads
        /\ pc[o] = "done"
        /\ promise[lcall[o]] = Rejected(KeyOf(ServerError))
        /\ result[o] = RejectedP(StringVal(KeyOf(ServerError)))

\* Invocation o is an upload whose PUT broadcast has resolved.
Committing(o) ==
    /\ entry[o] \in Uploads
    /\ pc[o] = "put"
    /\ wcall[o] \in CallsWith("PUT")
    /\ promise[wcall[o]].state = "fulfilled"

\* C14: the keyring changes only in the step that follows a resolved PUT
\* broadcast, and then by losing the old key; a rejected or pending PUT and
\* the POST branch leave it as it is.
C14_RemovalOnlyOnCommit ==
    [][ring' # ring =>
          \E o \in Ops :
              /\ Committing(o)
              /\ pc'[o] = "done"
              /\ ring' = ring \ {"old"}
      ]_vars

C14_Witness ==
    \E o \in Ops :
        /\ entry[o] \in Uploads
        /\ pc[o] = "done"
        /\ wcall[o] \in CallsWith("PUT")
        /\ result[o].state = "fulfilled"
        /\ "old" \notin ring

(***************************************************************************)
(* Votes and counters of one broadcast call.                               *)
(***************************************************************************)
\* The sum of the counters of a map.
RECURSIVE SumCounts(_)
SumCounts(map) ==
    IF DOMAIN map = {} THEN 0
    ELSE LET k == CHOOSE x \in DOMAIN map : TRUE
         IN  map[k] + SumCounts([x \in DOMAIN map \ {k} |-> map[x]])

\* The counted nodes of call c whose outcome renders to key.
VotesFor(c, key) == NodesWithKey(c, key) \cap CountedNodes(c)

QuorumKeys(c) ==
    {k \in DOMAIN responseMap[c] : responseMap[c][k] >= QuorumThreshold(F)}

\* C16: once the call has settled, an outcome that is counted still adds one
\* to its counter, but resolve and reject are not called again and the
\* promise keeps its first result, also when a second key reaches F + 1.
C16_LateOutcomesCountedNotDelivered ==
    [][Settled(1) =>
          /\ promise'[1] = promise[1]
          /\ settles'[1] = settles[1]
          /\ \A n \in Nodes :
                 phase[1][n] = "reading" /\ phase'[1][n] = "counted" =>
                     MapGet(responseMap'[1], KeyOf(Raced(1, n)))
                         = MapGet(responseMap[1], KeyOf(Raced(1, n))) + 1
      ]_vars

\* The call resolved with a Success, and afterwards the timeout key reached
\* F + 1 as well.
C16_Witness ==
    /\ N = 4
    /\ promise[1].state = "fulfilled"
    /\ settles[1] = 1
    /\ KeyOf(RequestTimeout) \in QuorumKeys(1)
    /\ Cardinality(QuorumKeys(1)) = 2

\* The requests call c has sent.
RequestsSent(c) ==
    LET RECURSIVE UpTo(_)
        UpTo(n) == IF n = 0 THEN 0 ELSE fetches[c][n] + UpTo(n - 1)
    IN  UpTo(N)

\* C17: a call that has started has sent one request to each node, N in all,
\* and sends no other, whatever its nodes answer; a call that has not started
\* has sent none.
C17_OneRequestPerNode ==
    \A c \in Calls :
        /\ \A n \in Nodes : fetches[c][n] = IF Active(c) THEN 1 ELSE 0
        /\ RequestsSent(c) = IF Active(c) THEN N ELSE 0

\* Four nodes, all counted, at least one timed out, no quorum: still four
\* requests.
C17_Witness ==
    /\ N = 4
    /\ AllCounted(1)
    /\ ~Settled(1)
    /\ \E n \in Nodes : Raced(1, n) = RequestTimeout
    /\ RequestsSent(1) = 4

\* Two responses with the same status, statusText and body.
SameFields(a, b) ==
    /\ a.status = b.status
    /\ a.statusText = b.statusText
    /\ BodyRead(a) = BodyRead(b)

\* C18: two counted outcomes of a call share a counter if and only if they
\* have the same status, the same statusText and the same body.
C18_ExactEqualityKey ==
    Active(1) =>
        \A n, m \in CountedNodes(1) :
            KeyOf(Raced(1, n)) = KeyOf(Raced(1, m))
                <=> SameFields(Raced(1, n), Raced(1, m))

\* "520 Request Timeout "
StrTimeoutKey ==
    << "5", "2", "0", " ", "R", "e", "q", "u", "e", "s", "t", " ", "T", "i",
       "m", "e", "o", "u", "t", " " >>

\* Call c has started against a cluster in which F + 1 or more nodes stay
\* silent.
QuorumSilent(c) ==
    Active(c) /\ Cardinality(SilentNodes(c)) >= QuorumThreshold(F)

\* The silent nodes of call c that have been counted.
SilentCounted(c) == SilentNodes(c) \cap CountedNodes(c)

\* C19: every node that misses its deadline is counted once under the key
\* "520 Request Timeout "; and when F + 1 or more nodes stay silent the call
\* eventually settles, rejected with that key unless another key reached
\* F + 1 before.
C19_SilentQuorumRejects ==
    /\ [](Active(1) =>
            MapGet(responseMap[1], StrTimeoutKey)
                = Cardinality(SilentCounted(1)))
    /\ [](QuorumSilent(1) /\ promise[1].state = "rejected"
            /\ promise[1].error # StrTimeoutKey
            => promise[1].error \in QuorumKeys(1))
    /\ (QuorumSilent(1) ~>
            /\ Settled(1)
            /\ \/ promise[1] = Rejected(StrTimeoutKey)
               \/ Cardinality(QuorumKeys(1) \ {StrTimeoutKey}) >= 1)

\* Four nodes, two of them silent, and the call rejected with the timeout
\* key.
C19_Witness ==
    /\ N = 4
    /\ Active(1)
    /\ Cardinality(SilentNodes(1)) = 2
    /\ promise[1] = Rejected(StrTimeoutKey)

\* Invocation o is an upload that has reached PBFTClient.upload.
UploadStarted(o) ==
    entry[o] \in Uploads /\ pc[o] \notin {"idle", "config", "client"}

\* Invocation o is an upload whose lookup broadcast has not settled.
LookupUnsettled(o) ==
    UploadStarted(o) /\ lcall[o] # 0 /\ ~Settled(lcall[o])

\* C20: an upload starts with its lookup broadcast, a GET; it has a write
\* broadcast only if the lookup broadcast has settled; and while the lookup
\* broadcast is unsettled the upload stays pending and no step issues a
\* request or a prompt.
C20_LookupBeforeWrite ==
    /\ [](\A o \in Ops :
            /\ UploadStarted(o) => lcall[o] \in CallsWith("GET")
            /\ entry[o] \in Uploads /\ wcall[o] # 0 =>
                   /\ lcall[o] # 0
                   /\ Settled(lcall[o])
                   /\ request[wcall[o]].method \in {"PUT", "POST"}
            /\ LookupUnsettled(o) =>
                   /\ pc[o] = "lookup"
                   /\ wcall[o] = 0
                   /\ result[o] = PendingP)
    /\ [][\A o \in Ops :
            LookupUnsettled(o) =>
                /\ request' = request
                /\ passPrompts' = passPrompts
                /\ sigPrompts' = sigPrompts
                /\ ring' = ring
         ]_vars

\* An upload whose lookup broadcast has had every node counted and no quorum.
C20_Witness ==
    \E o \in Ops :
        /\ LookupUnsettled(o)
        /\ AllCounted(lcall[o])
        /\ pc[o] = "lookup"
        /\ passPrompts = 0
        /\ sigPrompts = 0

\* The write broadcasts issued so far.
WriteCalls == CallsWith("PUT") \cup CallsWith("POST")

\* Invocation o is an upload whose PUT broadcast rejected.
UpdateFailed(o) ==
    /\ entry[o] \in Uploads
    /\ wcall[o] \in CallsWith("PUT")
    /\ promise[wcall[o]].state = "rejected"

\* C21: an upload issues at most one write broadcast; when its PUT broadcast
\* rejects, with a 404 key as with any other, it issues no POST and no
\* signature prompt and ends rejected with the wrapped error.
C21_AtMostOneWrite ==
    /\ [](/\ Cardinality(WriteCalls)
              <= Cardinality({o \in Ops : UploadStarted(o)})
          /\ \A o \in Ops :
                 UpdateFailed(o) /\ pc[o] = "done" =>
                     result[o]
                         = RejectedP(WrappedVal(promise[wcall[o]].error)))
    /\ [][\A o \in Ops :
            /\ wcall'[o] # wcall[o] => wcall[o] = 0
            /\ UpdateFailed(o) /\ pc[o] # "done" =>
                   /\ request' = request
                   /\ sigPrompts' = sigPrompts
                   /\ pc'[o] \in {pc[o], "upload.catch", "done"}
         ]_vars

\* An upload whose PUT was rejected by a quorum of 404 answers and that ended
\* without a POST.
C21_Witness ==
    \E o \in Ops :
        /\ UpdateFailed(o)
        /\ promise[wcall[o]] = Rejected(KeyOf(NotFound))
        /\ pc[o] = "done"
        /\ CallsWith("POST") = {}
        /\ sigPrompts = 0

(***************************************************************************)
(* Two broadcast calls in flight at the same time.                         *)
(***************************************************************************)
PairOutcomes == {IdxX, IdxY, IdxTimeout}

InitPair ==
    /\ \E n \in 1 .. MaxFlowNodes : Construct(n)
    /\ InitCalls
    /\ InitFlows
    /\ ring = {}

\* Each of the two calls starts at any time, whatever the other is doing.
BroadcastOne == Broadcast(1, PathGet, "", "none", SortedPlans(PairOutcomes))
BroadcastTwo == Broadcast(2, PathGet, "", "none", SortedPlans(PairOutcomes))

NextPair ==
    BroadcastOne \/ BroadcastTwo \/ NodeRespondsAny \/ NodeTimesOutAny
        \/ CountSuccessAny \/ CountFailureAny

SpecPair == InitPair /\ [][NextPair]_vars

\* What call c keeps to itself.
CallState(c) ==
    << responseMap[c], promiseResolved[c], promise[c], settles[c] >>

\* C22: with two calls in flight, each call's counters hold the votes of its
\* own nodes only, a step that counts an outcome of one call leaves the
\* counters, the latch and the promise of the other as they are, and each
\* call is settled exactly when one of its own keys has reached F + 1.
C22_CallStateIsPrivate ==
    /\ [](\A c \in Calls :
            /\ Active(c) =>
                   \A k \in PlannedKeys(c) \cup DOMAIN responseMap[c] :
                       MapGet(responseMap[c], k) = Cardinality(VotesFor(c, k))
            /\ Settled(c) <=> QuorumKeys(c) # {}
            /\ promiseResolved[c] <=> Settled(c))
    /\ [][\A c, d \in Calls :
            c # d /\ phase'[c] # phase[c] => CallState(d)' = CallState(d)
         ]_vars

\* The first call has settled while the second, part of its nodes counted, is
\* still in flight and unsettled.
C22_Witness ==
    /\ Settled(1)
    /\ Active(2)
    /\ CountedNodes(2) # {}
    /\ ~AllCounted(2)
    /\ ~Settled(2)

====
